---- MODULE Spec2Model ----
(***************************************************************************)
(* Dayan (yarrow stalk) divination: DayanDivination in                     *)
(* dayan_divination.py and IChing.divine in main.py.                       *)
(*                                                                         *)
(* A random.gauss draw g is carried as the integer tg = 2*g (so g is any   *)
(* multiple of one half); int(g) truncates toward zero.  Strings of '0'    *)
(* and '1' are sequences of one-character strings.  Python's 0-based list  *)
(* index idx is the 1-based sequence position idx + 1.                     *)
(***************************************************************************)
EXTENDS Integers, Sequences, FiniteSets, TLC

\* ------------------------------------------------------------------ bounds
\* Largest current_total handed to human_split / _calculate_change directly.
MaxTotal == 50
\* The direct calls draw g from -DrawMargin .. total + DrawMargin.
DrawMargin == 3
\* Longest list a caller stores in self.lines before get_hexagram_result.
MaxLen == 7
\* A direct _calculate_line call draws g up to FullSpread away from total / 2:
\* far enough for every left in 1 .. total - 1 and for both clamps.
FullSpread == 26
\* Within simulate the draws of one run lie, summed over the run, at most
\* MaxDeviation whole stalks away from total / 2 (ConcDeviation when two calls
\* share the instance, and under divine).
MaxDeviation == 2
ConcDeviation == 1

\* --------------------------------------------------------------- constants
StartStalks == 49
ChangesPerLine == 3
NumLines == 6

LineValues == {6, 7, 8, 9}
\* What a caller may put in a list: the four line values and one other number.
InputValues == LineValues \cup {5}

\* ------------------------------------------------------- DayanDivination
\* int(x) of the float x = tg / 2: truncation toward zero.
int(tg) == IF tg >= 0 THEN tg \div 2 ELSE -((-tg) \div 2)

human_split_noUpperClamp(total, tg) ==
    LET drawn == int(tg)
        left  == IF drawn < 1 THEN 1 ELSE drawn
    IN  <<left, total - left>>

human_split(total, tg) ==
    LET drawn == int(tg)
        low   == IF drawn < 1 THEN 1 ELSE drawn
        left  == IF low >= total THEN total - 1 ELSE low
    IN  <<left, total - left>>

_calculate_physical_count_noRemap(count) == count % 4

_calculate_physical_count(count) ==
    LET remainder == count % 4
    IN  IF remainder = 0 THEN 4 ELSE remainder

ChangeRecord(cur, lr, left_rem, right_rem, removed) ==
    [left |-> lr[1], right |-> lr[2], left_rem |-> left_rem,
     right_rem |-> right_rem, removed |-> removed, new_total |-> cur - removed]

\* removed without the hung stalk
_calculate_change_noHangOne(current_total, tg) ==
    LET lr        == human_split(current_total, tg)
        left_rem  == _calculate_physical_count(lr[1])
        right_rem == _calculate_physical_count(lr[2] - 1)
    IN  ChangeRecord(current_total, lr, left_rem, right_rem, left_rem + right_rem)

\* the right pile counted by fours without taking the hung stalk out of it
_calculate_change_countsWholeRight(current_total, tg) ==
    LET lr        == human_split(current_total, tg)
        left_rem  == _calculate_physical_count(lr[1])
        right_rem == _calculate_physical_count(lr[2])
    IN  ChangeRecord(current_total, lr, left_rem, right_rem, 1 + left_rem + right_rem)

_calculate_change(current_total, tg) ==
    LET lr         == human_split(current_total, tg)
        right_hang == lr[2] - 1
        hang_one   == 1
        left_rem   == _calculate_physical_count(lr[1])
        right_rem  == _calculate_physical_count(right_hang)
    IN  ChangeRecord(current_total, lr, left_rem, right_rem,
                     hang_one + left_rem + right_rem)

NoChange == ChangeRecord(0, <<0, 0>>, 0, 0, 0)

OriginalBit(val) == IF val \in {7, 9} THEN "1" ELSE "0"

ChangedBit_sixStaysYin(val) ==
    IF val = 7 THEN "1" ELSE "0"

ChangedBit(val) ==
    IF val = 6 THEN "1"
    ELSE IF val = 9 THEN "0"
    ELSE IF val = 7 THEN "1"
    ELSE "0"

IsChanging_onlyOldYin(val) == val = 6

IsChanging(val) == val = 6 \/ val = 9

EmptyAcc == [original_binary |-> <<>>, changed_binary |-> <<>>, changing_lines |-> <<>>]

RECURSIVE HexagramLoopFrom(_, _, _)
HexagramLoopFrom(ls, pos, acc) ==
    IF pos > Len(ls) THEN acc
    ELSE LET val == ls[pos]
         IN  HexagramLoopFrom(ls, pos + 1,
                [original_binary |-> Append(acc.original_binary, OriginalBit(val)),
                 changed_binary  |-> Append(acc.changed_binary, ChangedBit(val)),
                 changing_lines  |-> IF IsChanging(val)
                                     THEN Append(acc.changing_lines, pos)
                                     ELSE acc.changing_lines])

\* the for loop of get_hexagram_result over the list self.lines named when it starts
HexagramLoop(ls) == HexagramLoopFrom(ls, 1, EmptyAcc)

\* the returned dict; ls is self.lines as read by self.lines.copy()
HexagramReturn(acc, ls) ==
    [original_lines  |-> ls,
     original_binary |-> acc.original_binary,
     changed_binary  |-> acc.changed_binary,
     changing_lines  |-> acc.changing_lines,
     has_change      |-> Len(acc.changing_lines) > 0]

get_hexagram_result(ls) == HexagramReturn(HexagramLoop(ls), ls)

NoHex == HexagramReturn(EmptyAcc, <<>>)

\* ------------------------------------------------------------------- state
VARIABLES
    fpc,          \* direct calls: "ready", "split", "changed", "built"
    arg_total,    \* direct calls: the argument total / current_total
    arg_tg,       \* direct calls: the draw random.gauss returned (times two)
    ret_split,    \* direct calls: what human_split returned
    ret_change,   \* direct calls: what _calculate_change returned
    ret_hex,      \* direct calls: what get_hexagram_result returned
    lines,        \* self.lines
    spread,       \* random source: how far from total / 2 a draw may lie
    budget,       \* random source: draws that may still differ from total / 2
    callers,      \* the threads that call into the instance on their own
    pc,           \* per thread: where it is in simulate / _calculate_line
    i,            \* per thread: simulate's loop variable
    current_stalks, \* per thread: _calculate_line's current_stalks
    changes,      \* per thread: _calculate_line's changes
    final_lines,  \* per thread: simulate's final_lines
    line_data,    \* per thread: simulate's line_data
    acc,          \* per thread: get_hexagram_result's three accumulators
    ret_line,     \* per thread: what a direct _calculate_line call returned
    ret,          \* per thread: what simulate returned
    nchanges,     \* per thread: _calculate_change calls made so far
    verbose,      \* IChing.verbose, the same as its DayanDivination's verbose
    dpc,          \* where IChing.divine is
    wpc,          \* where the ai_worker thread is
    wres,         \* ai_worker: what generate gave (a response or an exception)
    queue,        \* ai_response_queue
    nput,         \* items ever put on ai_response_queue
    simulation_data,  \* divine's simulation_data
    returned_data,    \* what simulate had returned to divine, as it was then
    replay,       \* play_process: line steps replayed so far
    displayed,    \* play_process: the lines display_hexagram drew
    response,     \* divine's response
    divine_ret    \* what divine returned

direct  == <<fpc, arg_total, arg_tg, ret_split, ret_change, ret_hex>>
rng     == <<spread, budget>>
threads == <<callers, pc, i, current_stalks, changes, final_lines, line_data,
             acc, ret_line, ret, nchanges>>
divine  == <<verbose, dpc, wpc, wres, queue, nput, simulation_data, returned_data,
             replay, displayed, response, divine_ret>>
vars    == <<direct, lines, rng, threads, divine>>

Threads == {1, 2}

NoResult == [hex_result |-> NoHex, process_log |-> <<>>]

DirectUnused ==
    /\ fpc = "ready"
    /\ arg_total = 0
    /\ arg_tg = 0
    /\ ret_split = <<0, 0>>
    /\ ret_change = NoChange
    /\ ret_hex = NoHex

ThreadsIdle ==
    /\ pc = [t \in Threads |-> "idle"]
    /\ i = [t \in Threads |-> 0]
    /\ current_stalks = [t \in Threads |-> 0]
    /\ changes = [t \in Threads |-> <<>>]
    /\ final_lines = [t \in Threads |-> <<>>]
    /\ line_data = [t \in Threads |-> <<>>]
    /\ acc = [t \in Threads |-> EmptyAcc]
    /\ ret_line = [t \in Threads |-> <<0, <<>>>>]
    /\ ret = [t \in Threads |-> NoResult]
    /\ nchanges = [t \in Threads |-> 0]

\* IChing.divine not called
DivineUnused ==
    /\ verbose = TRUE
    /\ dpc = "idle"
    /\ wpc = "unstarted"
    /\ wres = "none"
    /\ queue = <<>>
    /\ nput = 0
    /\ simulation_data = NoResult
    /\ returned_data = NoResult
    /\ replay = 0
    /\ displayed = <<>>
    /\ response = "none"
    /\ divine_ret = "none"

ThreadsUnused ==
    /\ spread = 0
    /\ budget = 0
    /\ callers = {}
    /\ ThreadsIdle
    /\ DivineUnused

\* ----------------------------------------- direct calls of the pure steps
GaussDraws(total) == (-2 * DrawMargin) .. (2 * total + 2 * DrawMargin)

InitChange ==
    /\ fpc = "ready"
    /\ arg_total \in 1 .. MaxTotal
    /\ arg_tg = 0
    /\ ret_split = <<0, 0>>
    /\ ret_change = NoChange
    /\ ret_hex = NoHex
    /\ lines = <<>>
    /\ ThreadsUnused

CallHumanSplit ==
    /\ fpc = "ready"
    /\ \E tg \in GaussDraws(arg_total) :
          /\ arg_tg' = tg
          /\ ret_split' = human_split(arg_total, tg)
    /\ fpc' = "split"
    /\ UNCHANGED <<arg_total, ret_change, ret_hex, lines, rng, threads, divine>>

CallCalculateChange ==
    /\ fpc = "ready"
    /\ \E tg \in GaussDraws(arg_total) :
          /\ arg_tg' = tg
          /\ ret_change' = _calculate_change(arg_total, tg)
    /\ fpc' = "changed"
    /\ UNCHANGED <<arg_total, ret_split, ret_hex, lines, rng, threads, divine>>

NextChange == CallHumanSplit \/ CallCalculateChange

SpecChange == InitChange /\ [][NextChange]_vars

\* --------------------------- get_hexagram_result on a list the caller set
InputLists == UNION {[1 .. n -> InputValues] : n \in 0 .. MaxLen}

WellFormed(ls) == Len(ls) = NumLines /\ \A p \in 1 .. Len(ls) : ls[p] \in LineValues

InitHex ==
    /\ DirectUnused
    /\ lines \in InputLists
    /\ ThreadsUnused

CallGetHexagramResult ==
    /\ fpc = "ready"
    /\ ret_hex' = get_hexagram_result(lines)
    /\ fpc' = "built"
    /\ UNCHANGED <<arg_total, arg_tg, ret_split, ret_change, lines, rng, threads, divine>>

NextHex == CallGetHexagramResult

SpecHex == InitHex /\ [][NextHex]_vars

\* ------------------------------------ _calculate_line and simulate, by thread
\* The draws random.gauss(total / 2, 2.0) may return now: the mean, or a value
\* e whole stalks away from it, e within the spread and within what is left of
\* the budget.
Reach == IF budget < spread THEN budget ELSE spread

Draws(total) == {total + 2 * e : e \in (-Reach) .. Reach}

\* How far the draw tg lies from the mean total / 2, in stalks.
Deviation(total, tg) ==
    IF tg >= total THEN (tg - total) \div 2 ELSE (total - tg) \div 2

\* entering _calculate_line: current_stalks = 49, changes = []
EnterLine(t) ==
    /\ current_stalks' = [current_stalks EXCEPT ![t] = StartStalks]
    /\ changes' = [changes EXCEPT ![t] = <<>>]

CallCalculateLine(t) ==
    /\ t \in callers
    /\ pc[t] = "idle"
    /\ EnterLine(t)
    /\ pc' = [pc EXCEPT ![t] = "change"]
    /\ UNCHANGED <<direct, divine, lines, rng, callers, i, final_lines, line_data, acc,
                   ret_line, ret, nchanges>>

\* entering simulate: line_data = [], final_lines = [], i = 1, first
\* _calculate_line call
BeginSimulate(t) ==
    /\ pc[t] = "idle"
    /\ line_data' = [line_data EXCEPT ![t] = <<>>]
    /\ final_lines' = [final_lines EXCEPT ![t] = <<>>]
    /\ i' = [i EXCEPT ![t] = 1]
    /\ EnterLine(t)
    /\ pc' = [pc EXCEPT ![t] = "change"]

CallSimulate(t) ==
    /\ t \in callers
    /\ BeginSimulate(t)
    /\ UNCHANGED <<direct, divine, lines, rng, callers, acc, ret_line, ret, nchanges>>

\* one pass of the for _ in range(3) loop of _calculate_line
Change(t) ==
    /\ pc[t] = "change"
    /\ Len(changes[t]) < ChangesPerLine
    /\ \E tg \in Draws(current_stalks[t]) :
          LET change_data == _calculate_change(current_stalks[t], tg)
          IN  /\ changes' = [changes EXCEPT ![t] = Append(@, change_data)]
              /\ current_stalks' = [current_stalks EXCEPT ![t] = change_data.new_total]
              /\ budget' = budget - Deviation(current_stalks[t], tg)
    /\ nchanges' = [nchanges EXCEPT ![t] = @ + 1]
    /\ pc' = [pc EXCEPT ![t] = IF Len(changes[t]) + 1 = ChangesPerLine
                               THEN "line_done" ELSE "change"]
    /\ UNCHANGED <<direct, divine, lines, spread, callers, i, final_lines, line_data, acc,
                   ret_line, ret>>

\* final_num = current_stalks // 4
final_num(t) == current_stalks[t] \div 4

\* a direct _calculate_line call returns (final_num, changes)
CalculateLineReturn(t) ==
    /\ pc[t] = "line_done"
    /\ ret_line' = [ret_line EXCEPT ![t] = <<final_num(t), changes[t]>>]
    /\ pc' = [pc EXCEPT ![t] = "done"]
    /\ UNCHANGED <<direct, divine, lines, rng, callers, i, current_stalks, changes,
                   final_lines, line_data, acc, ret, nchanges>>

\* the next line keeps the stalks the last one ended with
SimulateLineDone_carriesTotal(t) ==
    /\ pc[t] = "line_done"
    /\ final_lines' = [final_lines EXCEPT ![t] = Append(@, final_num(t))]
    /\ line_data' = [line_data EXCEPT ![t] =
          Append(@, [line_idx |-> i[t], value |-> final_num(t), changes |-> changes[t]])]
    /\ IF i[t] < NumLines
       THEN /\ i' = [i EXCEPT ![t] = @ + 1]
            /\ changes' = [changes EXCEPT ![t] = <<>>]
            /\ UNCHANGED current_stalks
            /\ pc' = [pc EXCEPT ![t] = "change"]
       ELSE /\ pc' = [pc EXCEPT ![t] = "store"]
            /\ UNCHANGED <<i, current_stalks, changes>>
    /\ UNCHANGED <<direct, divine, lines, rng, callers, acc, ret_line, ret, nchanges>>

\* _calculate_line returns to simulate's loop body, which appends and either
\* calls _calculate_line for the next i or leaves the loop
SimulateLineDone(t) ==
    /\ pc[t] = "line_done"
    /\ final_lines' = [final_lines EXCEPT ![t] = Append(@, final_num(t))]
    /\ line_data' = [line_data EXCEPT ![t] =
          Append(@, [line_idx |-> i[t], value |-> final_num(t), changes |-> changes[t]])]
    /\ IF i[t] < NumLines
       THEN /\ i' = [i EXCEPT ![t] = @ + 1]
            /\ EnterLine(t)
            /\ pc' = [pc EXCEPT ![t] = "change"]
       ELSE /\ pc' = [pc EXCEPT ![t] = "store"]
            /\ UNCHANGED <<i, current_stalks, changes>>
    /\ UNCHANGED <<direct, divine, lines, rng, callers, acc, ret_line, ret, nchanges>>

\* self.lines = final_lines
SimulateStore(t) ==
    /\ pc[t] = "store"
    /\ lines' = final_lines[t]
    /\ pc' = [pc EXCEPT ![t] = "hexloop"]
    /\ UNCHANGED <<direct, divine, rng, callers, i, current_stalks, changes, final_lines,
                   line_data, acc, ret_line, ret, nchanges>>

\* get_hexagram_result: enumerate(self.lines) names the list self.lines holds
\* now; the loop then runs over that list, which nothing mutates
HexagramLoopRun(t) ==
    /\ pc[t] = "hexloop"
    /\ acc' = [acc EXCEPT ![t] = HexagramLoop(lines)]
    /\ pc' = [pc EXCEPT ![t] = "hexret"]
    /\ UNCHANGED <<direct, divine, lines, rng, callers, i, current_stalks, changes,
                   final_lines, line_data, ret_line, ret, nchanges>>

\* get_hexagram_result reads self.lines again for original_lines and returns;
\* simulate returns hex_result and process_log
SimulateReturn(t) ==
    /\ pc[t] = "hexret"
    /\ ret' = [ret EXCEPT ![t] = [hex_result  |-> HexagramReturn(acc[t], lines),
                                  process_log |-> line_data[t]]]
    /\ pc' = [pc EXCEPT ![t] = "done"]
    /\ UNCHANGED <<direct, divine, lines, rng, callers, i, current_stalks, changes,
                   final_lines, line_data, acc, ret_line, nchanges>>

\* ---- one direct _calculate_line call, every split possible at each change
InitLine ==
    /\ DirectUnused
    /\ DivineUnused
    /\ lines = <<>>
    /\ spread = FullSpread
    /\ budget = ChangesPerLine * FullSpread
    /\ callers = {1}
    /\ ThreadsIdle

NextLine ==
    \E t \in Threads : CallCalculateLine(t) \/ Change(t) \/ CalculateLineReturn(t)

SpecLine == InitLine /\ [][NextLine]_vars

\* ---- simulate
SimulateStep(t) ==
    \/ Change(t)
    \/ SimulateLineDone(t)
    \/ SimulateStore(t)
    \/ HexagramLoopRun(t)
    \/ SimulateReturn(t)

NextSim == \E t \in Threads : CallSimulate(t) \/ SimulateStep(t)

\* one simulate call on a fresh instance
InitSim ==
    /\ DirectUnused
    /\ DivineUnused
    /\ lines = <<>>
    /\ spread = MaxDeviation
    /\ budget = MaxDeviation
    /\ callers = {1}
    /\ ThreadsIdle

SpecSim == InitSim /\ [][NextSim]_vars

\* simulate runs straight through: no wait, no lock, no I/O
FairSim == SpecSim /\ WF_vars(NextSim)

\* two threads each calling simulate once on the same instance
InitConc ==
    /\ DirectUnused
    /\ DivineUnused
    /\ lines = <<>>
    /\ spread = ConcDeviation
    /\ budget = ConcDeviation
    /\ callers = Threads
    /\ ThreadsIdle

SpecConc == InitConc /\ [][NextSim]_vars

\* ------------------------------------------------------------ IChing.divine
\* thread 1 runs divine; ai_worker runs on a thread of its own.  The Ollama
\* client and the interpreter are outside this repository's core: whether
\* the connection is up, whether the hexagram is found and whether generate
\* raises are open choices.
InitDivine ==
    /\ DirectUnused
    /\ lines = <<>>
    /\ spread = ConcDeviation
    /\ budget = ConcDeviation
    /\ callers = {}
    /\ ThreadsIdle
    /\ verbose \in BOOLEAN
    /\ dpc = "check"
    /\ wpc = "unstarted"
    /\ wres = "none"
    /\ queue = <<>>
    /\ nput = 0
    /\ simulation_data = NoResult
    /\ returned_data = NoResult
    /\ replay = 0
    /\ displayed = <<>>
    /\ response = "none"
    /\ divine_ret = "none"

\* 1. if not self.ollama.check_connection(): return the error text
DivineCheckConnection ==
    /\ dpc = "check"
    /\ \/ /\ dpc' = "call_simulate"
          /\ UNCHANGED divine_ret
       \/ /\ dpc' = "returned"
          /\ divine_ret' = "error_connection"
    /\ UNCHANGED <<direct, lines, rng, threads, verbose, wpc, wres, queue, nput,
                   simulation_data, returned_data, replay, displayed, response>>

\* 2. self.divination.simulate() is called
DivineCallSimulate ==
    /\ dpc = "call_simulate"
    /\ BeginSimulate(1)
    /\ dpc' = "in_simulate"
    /\ UNCHANGED <<direct, lines, rng, callers, acc, ret_line, ret, nchanges,
                   verbose, wpc, wres, queue, nput, simulation_data, returned_data,
                   replay, displayed, response, divine_ret>>

\* simulation_data = the value simulate returned
DivineSimulateReturns ==
    /\ dpc = "in_simulate"
    /\ pc[1] = "done"
    /\ simulation_data' = ret[1]
    /\ returned_data' = ret[1]
    /\ dpc' = "interpret"
    /\ UNCHANGED <<direct, lines, rng, threads, verbose, wpc, wres, queue, nput,
                   replay, displayed, response, divine_ret>>

\* 3.-4. interpret_divination_result; original_hex is None returns the error
\* text, otherwise the prompt is built
DivineInterpret ==
    /\ dpc = "interpret"
    /\ \/ /\ dpc' = "start_worker"
          /\ UNCHANGED divine_ret
       \/ /\ dpc' = "returned"
          /\ divine_ret' = "error_no_hexagram"
    /\ UNCHANGED <<direct, lines, rng, threads, verbose, wpc, wres, queue, nput,
                   simulation_data, returned_data, replay, displayed, response>>

\* the worker is started as soon as the connection check passes
DivineStartWorker_beforeSimulate ==
    /\ dpc \in {"call_simulate", "start_worker"}
    /\ wpc = "unstarted"
    /\ queue' = <<>>
    /\ wpc' = "generate"
    /\ dpc' = IF dpc = "call_simulate" THEN dpc
              ELSE IF verbose THEN "play" ELSE "join"
    /\ UNCHANGED <<direct, lines, rng, threads, verbose, wres, nput, simulation_data,
                   returned_data, replay, displayed, response, divine_ret>>

\* 5. ai_response_queue = queue.Queue(); ai_thread.start(); 6. if self.verbose
DivineStartWorker ==
    /\ dpc = "start_worker"
    /\ queue' = <<>>
    /\ wpc' = "generate"
    /\ dpc' = IF verbose THEN "play" ELSE "join"
    /\ UNCHANGED <<direct, lines, rng, threads, verbose, wres, nput, simulation_data,
                   returned_data, replay, displayed, response, divine_ret>>

\* play_process: one pass of for line_step in process_log
PlayLine ==
    /\ dpc = "play"
    /\ replay < Len(simulation_data.process_log)
    /\ replay' = replay + 1
    /\ UNCHANGED <<direct, lines, rng, threads, verbose, dpc, wpc, wres, queue, nput,
                   simulation_data, returned_data, displayed, response, divine_ret>>

\* play_process: self.display_hexagram() draws self.lines; play_process returns
PlayDisplay ==
    /\ dpc = "play"
    /\ replay = Len(simulation_data.process_log)
    /\ displayed' = lines
    /\ dpc' = "join"
    /\ UNCHANGED <<direct, lines, rng, threads, verbose, wpc, wres, queue, nput,
                   simulation_data, returned_data, replay, response, divine_ret>>

\* 7. ai_thread.join()
DivineJoin ==
    /\ dpc = "join"
    /\ wpc = "done"
    /\ dpc' = "get"
    /\ UNCHANGED <<direct, lines, rng, threads, verbose, wpc, wres, queue, nput,
                   simulation_data, returned_data, replay, displayed, response,
                   divine_ret>>

\* response = ai_response_queue.get(), which blocks on an empty queue; 8. return
DivineGet ==
    /\ dpc = "get"
    /\ queue # <<>>
    /\ response' = Head(queue)
    /\ queue' = Tail(queue)
    /\ divine_ret' = IF Head(queue) = "exception" THEN "error_ai" ELSE "response"
    /\ dpc' = "returned"
    /\ UNCHANGED <<direct, lines, rng, threads, verbose, wpc, wres, nput,
                   simulation_data, returned_data, replay, displayed>>

\* ai_worker: self.ollama.generate(...) returns res or raises
WorkerGenerate ==
    /\ wpc = "generate"
    /\ \E outcome \in {"response", "exception"} : wres' = outcome
    /\ wpc' = "put"
    /\ UNCHANGED <<direct, lines, rng, threads, verbose, dpc, queue, nput,
                   simulation_data, returned_data, replay, displayed, response,
                   divine_ret>>

\* ai_worker: ai_response_queue.put(res) or, in the except branch, put(e)
WorkerPut ==
    /\ wpc = "put"
    /\ queue' = Append(queue, wres)
    /\ nput' = nput + 1
    /\ wpc' = "exit"
    /\ UNCHANGED <<direct, lines, rng, threads, verbose, dpc, wres, simulation_data,
                   returned_data, replay, displayed, response, divine_ret>>

\* ai_worker returns and its thread ends
WorkerExit ==
    /\ wpc = "exit"
    /\ wpc' = "done"
    /\ UNCHANGED <<direct, lines, rng, threads, verbose, dpc, wres, queue, nput,
                   simulation_data, returned_data, replay, displayed, response,
                   divine_ret>>

NextDivine ==
    \/ DivineCheckConnection
    \/ DivineCallSimulate
    \/ SimulateStep(1)
    \/ DivineSimulateReturns
    \/ DivineInterpret
    \/ DivineStartWorker
    \/ PlayLine
    \/ PlayDisplay
    \/ DivineJoin
    \/ DivineGet
    \/ WorkerGenerate
    \/ WorkerPut
    \/ WorkerExit

SpecDivine == InitDivine /\ [][NextDivine]_vars

\* ------------------------- simulate and play_process called one after another
\* One caller on one instance: each of the two simulate calls (told apart by
\* the thread index) starts only when no other call is running, and
\* play_process is given the result of a finished one.
NoCallRunning == dpc # "play" /\ \A u \in Threads : pc[u] \in {"idle", "done"}

InitReplay ==
    /\ DirectUnused
    /\ lines = <<>>
    /\ spread = ConcDeviation
    /\ budget = ConcDeviation
    /\ callers = Threads
    /\ ThreadsIdle
    /\ verbose \in BOOLEAN
    /\ dpc = "idle"
    /\ wpc = "unstarted"
    /\ wres = "none"
    /\ queue = <<>>
    /\ nput = 0
    /\ simulation_data = NoResult
    /\ returned_data = NoResult
    /\ replay = 0
    /\ displayed = <<>>
    /\ response = "none"
    /\ divine_ret = "none"

\* simulate() called while nothing else runs
ReplayCallSimulate(t) ==
    /\ NoCallRunning
    /\ CallSimulate(t)

\* play_process(simulation_data) with the result call t returned;
\* if not self.verbose: return
CallPlayProcess(t) ==
    /\ NoCallRunning
    /\ dpc = "idle"
    /\ pc[t] = "done"
    /\ simulation_data' = ret[t]
    /\ returned_data' = ret[t]
    /\ dpc' = IF verbose THEN "play" ELSE "played"
    /\ UNCHANGED <<direct, lines, rng, threads, verbose, wpc, wres, queue, nput,
                   replay, displayed, response, divine_ret>>

\* play_process: self.display_hexagram() draws self.lines; play_process returns
\* to its caller
ReplayDisplay ==
    /\ dpc = "play"
    /\ replay = Len(simulation_data.process_log)
    /\ displayed' = lines
    /\ dpc' = "played"
    /\ UNCHANGED <<direct, lines, rng, threads, verbose, wpc, wres, queue, nput,
                   simulation_data, returned_data, replay, response, divine_ret>>

NextReplay ==
    \/ \E t \in Threads : ReplayCallSimulate(t)
    \/ \E t \in Threads : SimulateStep(t)
    \/ \E t \in Threads : CallPlayProcess(t)
    \/ PlayLine
    \/ ReplayDisplay

SpecReplay == InitReplay /\ [][NextReplay]_vars

\* ------------------------------------------------------------------ claims

\* C2: every ChangeRecord returned by _calculate_change(current_total) has
\* left + right = current_total, removed = 1 + left_rem + right_rem,
\* new_total = current_total - removed, and both remainders in 1..4, for
\* every draw of the random source.
C2_ChangeRecordInvariant ==
    fpc = "changed" =>
        /\ ret_change.left + ret_change.right = arg_total
        /\ ret_change.removed = 1 + ret_change.left_rem + ret_change.right_rem
        /\ ret_change.new_total = arg_total - ret_change.removed
        /\ ret_change.left_rem \in 1 .. 4
        /\ ret_change.right_rem \in 1 .. 4

\* C2 witness: the right pile was a single stalk, so right - 1 = 0 was counted
\* and remapped to 4.
C2_Witness ==
    /\ fpc = "changed"
    /\ ret_change.right = 1
    /\ ret_change.right_rem = 4
    /\ ret_change.left > 1

\* C3 as stated: for any positive current_total and any split, new_total is
\* never negative.
C3_NeverNegative ==
    fpc = "changed" => ret_change.new_total >= 0

\* C3 amended: for any current_total of at least 6 and any split, new_total
\* is never negative.
C3_NeverNegativeFromSix ==
    (fpc = "changed" /\ arg_total >= 6) => ret_change.new_total >= 0

\* C3 witness: a change of six stalks that removes all six.
C3_Witness ==
    /\ fpc = "changed"
    /\ arg_total = 6
    /\ ret_change.new_total = 0

\* C4: for every total >= 2 and every draw, human_split returns (left, right)
\* with 1 <= left <= total - 1, right = total - left and right >= 1.
C4_SplitNonempty ==
    (fpc = "split" /\ arg_total >= 2) =>
        /\ ret_split[1] >= 1
        /\ ret_split[1] <= arg_total - 1
        /\ ret_split[2] = arg_total - ret_split[1]
        /\ ret_split[2] >= 1

\* C4 witness: a draw above the whole pile was clamped to total - 1.
C4_Witness ==
    /\ fpc = "split"
    /\ arg_total >= 2
    /\ int(arg_tg) > arg_total
    /\ ret_split = <<arg_total - 1, 1>>

\* C5: for six line values in {6,7,8,9}, original_binary and changed_binary
\* have length 6 over {'0','1'}; original_binary[i] is '1' iff lines[i] is 7
\* or 9; changed_binary[i] is '1' iff lines[i] is 6 or 7; the two agree at i
\* exactly when lines[i] is 7 or 8.
C5_Binaries ==
    (fpc = "built" /\ WellFormed(lines)) =>
        /\ Len(ret_hex.original_binary) = 6
        /\ Len(ret_hex.changed_binary) = 6
        /\ \A p \in 1 .. 6 :
              /\ ret_hex.original_binary[p] \in {"0", "1"}
              /\ ret_hex.changed_binary[p] \in {"0", "1"}
              /\ ret_hex.original_binary[p] = "1" <=> lines[p] \in {7, 9}
              /\ ret_hex.changed_binary[p] = "1" <=> lines[p] \in {6, 7}
              /\ (ret_hex.changed_binary[p] = ret_hex.original_binary[p])
                    <=> lines[p] \in {7, 8}

\* C5 witness: a built hexagram holding all four line values, an old yin
\* drawn broken and changed to solid, an old yang drawn solid and changed to
\* broken.
C5_Witness ==
    /\ fpc = "built"
    /\ lines = <<6, 7, 8, 9, 6, 9>>
    /\ ret_hex.original_binary = <<"0", "1", "0", "1", "0", "1">>
    /\ ret_hex.changed_binary = <<"1", "1", "0", "0", "1", "0">>

\* C6: for six line values in {6,7,8,9}, changing_lines is the strictly
\* ascending list of the 1-based positions whose value is 6 or 9, and
\* has_change is true iff that list is non-empty.
C6_ChangingLines ==
    (fpc = "built" /\ WellFormed(lines)) =>
        LET cl == ret_hex.changing_lines
        IN  /\ \A a \in 1 .. Len(cl) : cl[a] \in 1 .. 6
            /\ \A a, b \in 1 .. Len(cl) : a < b => cl[a] < cl[b]
            /\ {cl[a] : a \in 1 .. Len(cl)} = {p \in 1 .. 6 : lines[p] \in {6, 9}}
            /\ ret_hex.has_change <=> Len(cl) > 0

\* C6 witness: a built hexagram with two changing lines, one old yin and one
\* old yang, separated by unchanging lines.
C6_Witness ==
    /\ fpc = "built"
    /\ lines = <<7, 9, 8, 8, 6, 7>>
    /\ ret_hex.changing_lines = <<2, 5>>
    /\ ret_hex.has_change

\* C7 as stated: a list that is not six values each in {6,7,8,9} never yields
\* a result, and no result has binary strings of a length other than 6.
C7_MalformedInputRejected ==
    fpc = "built" =>
        /\ WellFormed(lines)
        /\ Len(ret_hex.original_binary) = 6
        /\ Len(ret_hex.changed_binary) = 6

\* C1: in every line computed by _calculate_line from 49 stalks, for every
\* split at each change, new_total is in {40,44} after change 1, in
\* {32,36,40} after change 2 and in {24,28,32,36} after change 3, and the
\* line value new_total // 4 is in {6,7,8,9}.
C1_LineRanges ==
    \A t \in callers :
        LET ch == changes[t]
        IN  /\ Len(ch) >= 1 => ch[1].new_total \in {40, 44}
            /\ Len(ch) >= 2 => ch[2].new_total \in {32, 36, 40}
            /\ Len(ch) >= 3 => ch[3].new_total \in {24, 28, 32, 36}
            /\ pc[t] = "done" =>
                  /\ ret_line[t][1] \in {6, 7, 8, 9}
                  /\ ret_line[t][1] * 4 = ret_line[t][2][3].new_total

\* C1 witness: a finished line whose first split left a single stalk in the
\* left hand and whose value is 9.
C1_Witness ==
    /\ pc[1] = "done"
    /\ ret_line[1][2][1].left = 1
    /\ ret_line[1][1] = 9

\* The values of a process_log, in line order.
LogValues(log) == [p \in 1 .. Len(log) |-> log[p].value]

\* C8 as stated: whatever the interleaving of the simulate calls on one
\* instance, each returned result is self-consistent: original_lines are the
\* values of its own process_log, and the binaries and changing_lines are the
\* ones derived from those values.
C8_SelfConsistent ==
    \A t \in Threads :
        pc[t] = "done" =>
            ret[t].hex_result = get_hexagram_result(LogValues(ret[t].process_log))

\* What one finished simulate call leaves: 18 changes, a process_log of six
\* lines numbered 1..6, each of three changes chained from 49 stalks.
SimulateShape(t) ==
    /\ nchanges[t] = NumLines * ChangesPerLine
    /\ Len(ret[t].process_log) = 6
    /\ \A p \in 1 .. Len(ret[t].process_log) :
          LET rec == ret[t].process_log[p]
          IN  /\ rec.line_idx = p
              /\ Len(rec.changes) = 3
              /\ rec.changes[1].left + rec.changes[1].right = 49
              /\ \A k \in 1 .. 2 :
                    rec.changes[k + 1].left + rec.changes[k + 1].right
                        = rec.changes[k].new_total
              /\ rec.value = rec.changes[3].new_total \div 4

\* C10: one simulate call always terminates, after exactly 18 change steps:
\* six lines in order 1..6, each restarting from 49 stalks with three changes,
\* each change's new_total the next change's current_total, giving a
\* process_log of length 6 with line_idx 1..6 and 3 changes per line.
C10_Terminates ==
    /\ <>(pc[1] = "done")
    /\ [](nchanges[1] <= 18)
    /\ [](pc[1] = "done" => SimulateShape(1))

\* C10 witness: a finished call whose first line came out 9 and last line 6.
C10_Witness ==
    /\ pc[1] = "done"
    /\ SimulateShape(1)
    /\ ret[1].process_log[1].value = 9
    /\ ret[1].process_log[6].value = 6

\* A result as simulate returns it when it has run to its end.
FullyPopulated(data) ==
    /\ Len(data.process_log) = 6
    /\ \A p \in 1 .. Len(data.process_log) : Len(data.process_log[p].changes) = 3
    /\ Len(data.hex_result.original_lines) = 6
    /\ Len(data.hex_result.original_binary) = 6
    /\ Len(data.hex_result.changed_binary) = 6

\* Either consumer of the result has begun: the worker thread was started, or
\* play_process was entered.
ConsumerBegun == wpc # "unstarted" \/ dpc = "play" \/ replay > 0

\* C9: in every execution of divine, simulate has returned a fully populated
\* result before the worker thread is started and before play_process begins,
\* neither of them changes that result, and divine reads the response only
\* after joining the worker, which has put exactly one item on the queue.
C9_ComputedBeforeConsumers ==
    /\ ConsumerBegun =>
          /\ pc[1] = "done"
          /\ FullyPopulated(simulation_data)
          /\ simulation_data = ret[1]
          /\ simulation_data = returned_data
    /\ dpc = "get" => (wpc = "done" /\ nput = 1 /\ Len(queue) = 1)
    /\ response # "none" => (wpc = "done" /\ nput = 1 /\ queue = <<>>)

\* C9 witness: divine has read the worker's response after a replay of all
\* six lines.
C9_Witness ==
    /\ dpc = "returned"
    /\ response = "response"
    /\ replay = 6
    /\ wpc = "done"
    /\ simulation_data.process_log[2].value = 8

\* C11 as stated: after any sequence of simulate() and play_process(data)
\* calls on one instance, the hexagram play_process(data) draws at its end has
\* the six process_log values of that data as its lines, even if simulate()
\* ran again between producing the data and replaying it.
C11_ReplaysItsOwnData ==
    (dpc = "played" /\ verbose) =>
        displayed = LogValues(simulation_data.process_log)

====
